---- MODULE Spec2Model ----
(***************************************************************************)
(* PromptAssistant (src/app.py): the streaming response reconstruction     *)
(* (process_stream_response), the retry loop of generate_response, the     *)
(* ConversationManager store and the Gradio handlers of create_interface   *)
(* (respond, retry_last_message, save_edited_message, ...).                *)
(*                                                                         *)
(* Text is modelled as a sequence of one-character strings, so that the    *)
(* code's tests on text (truthiness, strip, equality, list membership)     *)
(* are computed and not assumed.  Role names and conversation titles that  *)
(* the code never inspects character by character are still sequences, so  *)
(* that every piece of text has one type.                                  *)
(*                                                                         *)
(* A conversation record carries id, title, updated_at, messages, likes    *)
(* and dislikes.  created_at and the per-message timestamp are written     *)
(* once and read by no operation of the program; they are left out.        *)
(***************************************************************************)
EXTENDS Integers, Sequences, FiniteSets, TLC

\* ------------------------------------------------------------------ bounds
\* The clock runs from 1 to MaxClock.  It numbers, in order, the distinct
\* seconds of time.time() at which the program reads the time: conversation
\* ids (the second as text) are only compared for equality and timestamps
\* only for order, so the length of the gap between two readings is not
\* kept, only whether the second has changed.
MaxClock == 3
\* A session is followed for at most MaxOps handler calls, with every answer
\* of the environment (Spec); and for at most MaxPlainOps handler calls, with
\* its plain answers only (SpecPlain).
MaxOps == 2
MaxPlainOps == 5
\* The store is followed for at most MaxStoreOps calls of its methods
\* (SpecStore).
MaxStoreOps == 3
\* A session of sends and undos is followed for at most MaxUndoOps handler
\* calls (SpecUndo).
MaxUndoOps == 3
\* A session that reaches a visible history without a user entry is followed
\* for at most MaxEdgeOps handler calls (SpecEdge).
MaxEdgeOps == 3
\* The methods of the manager and the like and dislike buttons are followed
\* for at most MaxManagerOps calls (SpecManager).
MaxManagerOps == 3
\* A session of streaming sends, retries and edits only is followed for at
\* most MaxTurnOps handler calls (SpecTurns).
MaxTurnOps == 2
\* A session of sends, undos, retries, edits, clears and new conversations
\* is followed for at most MaxStackOps handler calls (SpecStack).
MaxStackOps == 2
\* A stream given to process_stream_response holds at most MaxEvents chunks
\* (SpecStream).
MaxEvents == 2

\* ------------------------------------------------------------------ text
\* None as a conversation id (app.py:102); ids are clock values >= 1.
NoId == 0

Whitespace == {" ", "\n"}

\* not text
IsEmpty(s) == s = <<>>

\* text.strip() == ""
IsBlank(s) == \A i \in DOMAIN s : s[i] \in Whitespace

\* the first / last index of s whose character is not in chars (0 if none)
FirstKept(s, chars) ==
    IF \E i \in DOMAIN s : s[i] \notin chars
    THEN CHOOSE i \in DOMAIN s :
            /\ s[i] \notin chars
            /\ \A j \in 1..(i - 1) : s[j] \in chars
    ELSE 0

LastKept(s, chars) ==
    IF \E i \in DOMAIN s : s[i] \notin chars
    THEN CHOOSE i \in DOMAIN s :
            /\ s[i] \notin chars
            /\ \A j \in (i + 1)..Len(s) : s[j] \in chars
    ELSE 0

\* str.strip(chars): drops the leading and trailing characters that are in chars
StripChars(s, chars) ==
    IF FirstKept(s, chars) = 0 THEN <<>>
    ELSE SubSeq(s, FirstKept(s, chars), LastKept(s, chars))

Last(s) == s[Len(s)]

Front(s) == SubSeq(s, 1, Len(s) - 1)

Msg(role, content) == [role |-> role, content |-> content]

\* ------------------------------------------------------- ConversationManager
\* A manager value cm is the record
\*   [conversations, current_conversation_id, index_file]
\* index_file is the content of conversations/index.json.

\* The default title (app.py:125, 319, 345, 348), in English here: the
\* strings of the model are ASCII.
DefaultTitle == <<"New conversation">>

\* ConversationManager._save_conversations_index
\* ConversationManager._load_conversations_index on the file that
\* _save_conversations_index wrote: the keys are strings and the values
\* strings, integers, lists and dictionaries with string keys, which json.load
\* gives back as json.dump took them.
load_conversations_index(file) == file

\* an index that is not written
save_conversations_index_Skip(cm) == cm

save_conversations_index(cm) == [cm EXCEPT !.index_file = cm.conversations]

\* ConversationManager.create_conversation: the id is the clock's second
create_conversation(cm, now) ==
    LET new == [id |-> now, title |-> DefaultTitle, updated_at |-> now,
                messages |-> <<>>, likes |-> 0, dislikes |-> 0]
        convs == [i \in DOMAIN cm.conversations \cup {now} |->
                    IF i = now THEN new ELSE cm.conversations[i]]
    IN  [cm |-> [save_conversations_index([cm EXCEPT !.conversations = convs])
                    EXCEPT !.current_conversation_id = now],
         ret |-> now]

\* an add_message that stores a repeated message again
add_message_NoDedupe(cm, id, role, content, now) ==
    IF id \notin DOMAIN cm.conversations THEN [cm |-> cm, ret |-> FALSE]
    ELSE IF IsEmpty(content) \/ IsBlank(content) THEN [cm |-> cm, ret |-> FALSE]
    ELSE [cm |-> save_conversations_index(
                    [cm EXCEPT !.conversations[id].messages =
                                    Append(@, Msg(role, content)),
                               !.conversations[id].updated_at = now]),
          ret |-> TRUE]

\* an add_message that rejects the empty content only
add_message_KeepsBlank(cm, id, role, content, now) ==
    IF id \notin DOMAIN cm.conversations THEN [cm |-> cm, ret |-> FALSE]
    ELSE IF IsEmpty(content) THEN [cm |-> cm, ret |-> FALSE]
    ELSE LET messages == cm.conversations[id].messages IN
         IF /\ messages # <<>>
            /\ Last(messages).role = role
            /\ Last(messages).content = content
         THEN [cm |-> cm, ret |-> TRUE]
         ELSE [cm |-> save_conversations_index(
                        [cm EXCEPT !.conversations[id].messages =
                                        Append(messages, Msg(role, content)),
                                   !.conversations[id].updated_at = now]),
               ret |-> TRUE]

\* ConversationManager.add_message
add_message(cm, id, role, content, now) ==
    IF id \notin DOMAIN cm.conversations THEN [cm |-> cm, ret |-> FALSE]
    ELSE IF IsEmpty(content) \/ IsBlank(content) THEN [cm |-> cm, ret |-> FALSE]
    ELSE LET messages == cm.conversations[id].messages IN
         IF /\ messages # <<>>
            /\ Last(messages).role = role
            /\ Last(messages).content = content
         THEN [cm |-> cm, ret |-> TRUE]
         ELSE [cm |-> save_conversations_index(
                        [cm EXCEPT !.conversations[id].messages =
                                        Append(messages, Msg(role, content)),
                                   !.conversations[id].updated_at = now]),
               ret |-> TRUE]

\* ConversationManager.update_last_message
update_last_message(cm, id, content, now) ==
    IF id \notin DOMAIN cm.conversations THEN [cm |-> cm, ret |-> FALSE]
    ELSE LET messages == cm.conversations[id].messages IN
         IF messages = <<>> THEN [cm |-> cm, ret |-> FALSE]
         ELSE [cm |-> save_conversations_index(
                        [cm EXCEPT !.conversations[id].messages =
                                        [messages EXCEPT ![Len(messages)].content = content],
                                   !.conversations[id].updated_at = now]),
               ret |-> TRUE]

\* ConversationManager.remove_last_message
remove_last_message(cm, id, now) ==
    IF id \notin DOMAIN cm.conversations THEN [cm |-> cm, ret |-> FALSE]
    ELSE LET messages == cm.conversations[id].messages IN
         IF messages = <<>> THEN [cm |-> cm, ret |-> FALSE]
         ELSE [cm |-> save_conversations_index(
                        [cm EXCEPT !.conversations[id].messages = Front(messages),
                                   !.conversations[id].updated_at = now]),
               ret |-> TRUE]

\* a like that counts twice
like_conversation_Twice(cm, id, now) ==
    IF id \notin DOMAIN cm.conversations THEN [cm |-> cm, ret |-> FALSE]
    ELSE [cm |-> [cm EXCEPT !.conversations[id].likes = @ + 2,
                            !.conversations[id].updated_at = now,
                            !.index_file[id].likes = @ + 2,
                            !.index_file[id].updated_at = now],
          ret |-> TRUE]

\* ConversationManager.like_conversation
like_conversation(cm, id, now) ==
    IF id \notin DOMAIN cm.conversations THEN [cm |-> cm, ret |-> FALSE]
    ELSE [cm |-> save_conversations_index(
                    [cm EXCEPT !.conversations[id].likes = @ + 1,
                               !.conversations[id].updated_at = now]),
          ret |-> TRUE]

\* ConversationManager.dislike_conversation
dislike_conversation(cm, id, now) ==
    IF id \notin DOMAIN cm.conversations THEN [cm |-> cm, ret |-> FALSE]
    ELSE [cm |-> save_conversations_index(
                    [cm EXCEPT !.conversations[id].dislikes = @ + 1,
                               !.conversations[id].updated_at = now]),
          ret |-> TRUE]

\* a rename that reports success for a conversation it does not know
update_conversation_title_Unchecked(cm, id, title) ==
    IF id \in DOMAIN cm.conversations
    THEN [cm |-> [cm EXCEPT !.conversations[id].title = title,
                            !.index_file[id].title = title],
          ret |-> TRUE]
    ELSE [cm |-> cm, ret |-> TRUE]

\* ConversationManager.update_conversation_title
update_conversation_title(cm, id, title) ==
    IF id \in DOMAIN cm.conversations
    THEN [cm |-> save_conversations_index([cm EXCEPT !.conversations[id].title = title]),
          ret |-> TRUE]
    ELSE [cm |-> cm, ret |-> FALSE]

\* ConversationManager.delete_conversation
cm_delete_conversation(cm, id) ==
    IF id \in DOMAIN cm.conversations
    THEN [cm |-> save_conversations_index(
                    [cm EXCEPT !.conversations =
                        [i \in DOMAIN cm.conversations \ {id} |-> cm.conversations[i]]]),
          ret |-> TRUE]
    ELSE [cm |-> cm, ret |-> FALSE]

\* ------------------------------------------------------------ title by AI
\* The completion request of generate_conversation_title answers with
\* tr = [ok, content]: ok = FALSE when the request raises.
QuoteChars == {"\"", "'"}

\* generate_conversation_title, for a non-empty message list: the request is
\* issued; its exception is caught here and answered with the default title.
generate_conversation_title(messages, tr) ==
    IF messages = <<>> THEN DefaultTitle
    ELSE IF ~tr.ok THEN DefaultTitle
    ELSE LET title == StripChars(StripChars(tr.content, Whitespace), QuoteChars)
         IN  IF IsEmpty(title) THEN DefaultTitle ELSE title

\* a title update that asks for a title as soon as there is one message
update_title_with_ai_OneMessage(cm, id, tr) ==
    IF id \notin DOMAIN cm.conversations
    THEN [cm |-> cm, ret |-> FALSE, requests |-> 0]
    ELSE LET messages == cm.conversations[id].messages IN
         IF Len(messages) >= 1
         THEN [cm |-> save_conversations_index(
                        [cm EXCEPT !.conversations[id].title =
                                        generate_conversation_title(messages, tr)]),
               ret |-> TRUE, requests |-> 1]
         ELSE [cm |-> cm, ret |-> FALSE, requests |-> 0]

\* ConversationManager.update_title_with_ai; requests counts the completion
\* requests it caused.
update_title_with_ai(cm, id, tr) ==
    IF id \notin DOMAIN cm.conversations
    THEN [cm |-> cm, ret |-> FALSE, requests |-> 0]
    ELSE LET messages == cm.conversations[id].messages IN
         IF Len(messages) >= 2
         THEN [cm |-> save_conversations_index(
                        [cm EXCEPT !.conversations[id].title =
                                        generate_conversation_title(messages, tr)]),
               ret |-> TRUE, requests |-> 1]
         ELSE [cm |-> cm, ret |-> FALSE, requests |-> 0]

\* ------------------------------------------------- process_stream_response
User == <<"user">>
Assistant == <<"assistant">>

\* The characters of the punctuation list of app.py:69.  U+3002, U+FF01 and
\* U+FF1F name the full-width full stop, exclamation mark and question mark.
PunctuationList == {<<"\n">>, <<"U+3002">>, <<"U+FF01">>, <<"U+FF1F">>, <<".">>, <<"!">>, <<"?">>}

\* 0.03 s in milliseconds (app.py:67)
YieldIntervalMs == 30
\* app.py:68
YieldCharCount == 5

\* A chunk of the stream is the record
\*   [has_reasoning, reasoning_content, has_content, content, dt]
\* has_x = FALSE stands for a delta whose x is None (or absent); dt is the
\* time in milliseconds between the previous reading of the clock by the
\* generator (its start, or the previous chunk) and this chunk's reading.
Chunk(hr, r, hc, c, dt) ==
    [has_reasoning |-> hr, reasoning_content |-> r,
     has_content |-> hc, content |-> c, dt |-> dt]

Snapshot(reasoning, content) == [reasoning |-> reasoning, content |-> content]

\* The locals of process_stream_response at its start (app.py:44-48); time
\* is the clock in milliseconds, yields the snapshots emitted so far.
StreamStart ==
    [full_response |-> <<>>, reasoning |-> <<>>, buffer |-> <<>>,
     last_yield_time |-> 0, char_count |-> 0, time |-> 0, yields |-> <<>>]

\* should_yield without the test of the time passed
should_yield_NoInterval(current_time, last_yield_time, char_count, content) ==
    \/ char_count >= YieldCharCount
    \/ content \in PunctuationList

\* app.py:66-70
should_yield(current_time, last_yield_time, char_count, content) ==
    \/ current_time - last_yield_time >= YieldIntervalMs
    \/ char_count >= YieldCharCount
    \/ content \in PunctuationList

\* the reasoning is accumulated and no snapshot is emitted for it
StreamReasoning_Silent(ps, chunk) ==
    IF chunk.has_reasoning
    THEN [ps EXCEPT !.reasoning = @ \o chunk.reasoning_content]
    ELSE ps

\* app.py:52-55: the reasoning part of one loop iteration
StreamReasoning(ps, chunk) ==
    IF chunk.has_reasoning
    THEN LET reasoning == ps.reasoning \o chunk.reasoning_content
         IN  [ps EXCEPT !.reasoning = reasoning,
                        !.yields = Append(@, Snapshot(reasoning, ps.full_response))]
    ELSE ps

\* app.py:58-76: the content part of one loop iteration
StreamContent(ps, chunk) ==
    IF chunk.has_content
    THEN LET full_response == ps.full_response \o chunk.content
             char_count == ps.char_count + Len(chunk.content)
             current_time == ps.time + chunk.dt
         IN  IF should_yield(current_time, ps.last_yield_time, char_count, chunk.content)
             THEN [ps EXCEPT !.full_response = full_response,
                             !.time = current_time,
                             !.yields = Append(@, Snapshot(ps.reasoning, full_response)),
                             !.last_yield_time = current_time,
                             !.char_count = 0,
                             !.buffer = <<>>]
             ELSE [ps EXCEPT !.full_response = full_response,
                             !.time = current_time,
                             !.buffer = @ \o chunk.content,
                             !.char_count = char_count]
    ELSE [ps EXCEPT !.time = @ + chunk.dt]

\* app.py:50-76: one iteration of the loop over the stream
StreamChunk(ps, chunk) == StreamContent(StreamReasoning(ps, chunk), chunk)

\* a flush that yields nothing
StreamFlush_Never(ps) == ps

\* a flush that yields whether or not content is held back
StreamFlush_Always(ps) ==
    [ps EXCEPT !.yields = Append(@, Snapshot(ps.reasoning, ps.full_response))]

\* app.py:78-80: the flush after the stream is exhausted
StreamFlush(ps) ==
    IF ps.buffer # <<>>
    THEN [ps EXCEPT !.yields = Append(@, Snapshot(ps.reasoning, ps.full_response))]
    ELSE ps

RECURSIVE StreamLoop(_, _, _)
StreamLoop(ps, events, n) ==
    IF n = 0 THEN ps
    ELSE StreamChunk(StreamLoop(ps, events, n - 1), events[n])

\* process_stream_response over a response resp = [events, abort_at]: the
\* stream raises when asked for chunk abort_at + 1 (abort_at = -1: it ends
\* normally).  The result is the snapshots emitted and whether it raised.
process_stream_response(resp) ==
    IF resp.abort_at >= 0
    THEN [yields |-> StreamLoop(StreamStart, resp.events, resp.abort_at).yields,
          raised |-> TRUE]
    ELSE [yields |-> StreamFlush(StreamLoop(StreamStart, resp.events, Len(resp.events))).yields,
          raised |-> FALSE]

RECURSIVE ConcatContent(_)
ConcatContent(events) ==
    IF events = <<>> THEN <<>>
    ELSE ConcatContent(Front(events))
            \o (IF Last(events).has_content THEN Last(events).content ELSE <<>>)

RECURSIVE ConcatReasoning(_)
ConcatReasoning(events) ==
    IF events = <<>> THEN <<>>
    ELSE ConcatReasoning(Front(events))
            \o (IF Last(events).has_reasoning THEN Last(events).reasoning_content ELSE <<>>)

\* process_non_stream_response: the response carries one final pair, here
\* the whole text of resp.events
process_non_stream_response(resp) ==
    Snapshot(ConcatReasoning(resp.events), ConcatContent(resp.events))

\* The value left in final_content (app.py:409-411) and in
\* assistant_message["content"] (app.py:566-569) by a loop over snapshots:
\* the content of the last snapshot whose content is not empty.
RECURSIVE LastContent(_)
LastContent(snaps) ==
    IF snaps = <<>> THEN <<>>
    ELSE IF ~IsEmpty(Last(snaps).content) THEN Last(snaps).content
    ELSE LastContent(Front(snaps))

\* ------------------------------------------------------- generate_response
\* app.py:378
max_retries == 3

\* An endpoint is a sequence of outcomes, one per request made to it: "ok",
\* or the text of the exception it raises.
Ok == "ok"

\* app.py:396, in English: the prefix, then the heading of the guidance and
\* its four hints (network, API key, VPN, retry later).
ErrorPrefix == "API call finally failed: "
HintsHeading == "\n\nPossible solutions:"
Hints == <<"\n1. Check the network connection", "\n2. Confirm the API key is valid",
           "\n3. Try a VPN", "\n4. Retry later">>

final_error_msg(e) == <<ErrorPrefix, e, HintsHeading>> \o Hints

Event(ev, n) == [ev |-> ev, n |-> n]

\* app.py:381-404: the retry loop.  log lists what it did, in order:
\* request n (the n-th request), fail n (the n-th failure), sleep n (n seconds).
\* a back-off that does not grow
sleep_seconds_Fixed(retry_count) == 2

\* app.py:403-404: the seconds slept after the retry_count-th failure
sleep_seconds(retry_count) == retry_count * 2

RECURSIVE request_loop(_, _, _)
request_loop(endpoint, retry_count, log) ==
    IF retry_count < max_retries
    THEN LET requested == Append(log, Event("request", retry_count + 1)) IN
         IF endpoint[retry_count + 1] = Ok
         THEN [stream |-> TRUE, error |-> "", log |-> requested]
         ELSE LET failed == Append(requested, Event("fail", retry_count + 1)) IN
              IF retry_count + 1 >= max_retries
              THEN [stream |-> FALSE, error |-> endpoint[retry_count + 1], log |-> failed]
              ELSE request_loop(endpoint, retry_count + 1,
                                Append(failed, Event("sleep", sleep_seconds(retry_count + 1))))
    ELSE [stream |-> FALSE, error |-> "", log |-> log]

RECURSIVE Slept(_)
Slept(log) ==
    IF log = <<>> THEN 0
    ELSE Slept(Front(log)) + (IF Last(log).ev = "sleep" THEN Last(log).n ELSE 0)

\* the clock after the retry loop: a later second if the loop slept
After(now, log) == IF Slept(log) > 0 THEN now + 1 ELSE now

\* app.py:355-359: the conversation is created if the manager has none,
\* and the user's message is stored in the manager's current conversation
EnsureConversation(cm, now) ==
    IF cm.current_conversation_id = NoId THEN create_conversation(cm, now).cm ELSE cm

StoreUserMessage(cm, message, now) ==
    add_message(cm, cm.current_conversation_id, User, message, now).cm

\* giving up without storing the error text
GiveUp_NotStored(cm, error, loop_log, later) ==
    [cm |-> cm,
     snapshots |-> <<Snapshot(<<>>, final_error_msg(error))>>,
     log |-> loop_log, raised |-> FALSE, failed |-> TRUE]

\* app.py:395-401: the retry loop gave up; the error text is stored as the
\* assistant's message and yielded
GiveUp(cm, error, loop_log, later) ==
    [cm |-> add_message(cm, cm.current_conversation_id, Assistant,
                        final_error_msg(error), later).cm,
     snapshots |-> <<Snapshot(<<>>, final_error_msg(error))>>,
     log |-> loop_log, raised |-> FALSE, failed |-> TRUE]

\* app.py:406-415: the snapshots of the stream are yielded; the last
\* non-empty content is stored when the stream has ended
Streamed(cm, gen, loop_log, later) ==
    [cm |-> IF ~gen.raised /\ ~IsEmpty(LastContent(gen.yields))
            THEN add_message(cm, cm.current_conversation_id, Assistant,
                             LastContent(gen.yields), later).cm
            ELSE cm,
     snapshots |-> gen.yields,
     log |-> loop_log, raised |-> gen.raised, failed |-> FALSE]

\* app.py:416-420: the response is stored, then yielded
NotStreamed(cm, pair, loop_log, later) ==
    [cm |-> add_message(cm, cm.current_conversation_id, Assistant, pair.content, later).cm,
     snapshots |-> <<pair>>,
     log |-> loop_log, raised |-> FALSE, failed |-> FALSE]

\* app.py:378-420, after the user's message was stored in asked
Requested(asked, loop, resp, stream_mode, now) ==
    IF ~loop.stream THEN GiveUp(asked, loop.error, loop.log, After(now, loop.log))
    ELSE IF stream_mode
    THEN Streamed(asked, process_stream_response(resp), loop.log, After(now, loop.log))
    ELSE NotStreamed(asked, process_non_stream_response(resp), loop.log,
                     After(now, loop.log))

\* generate_response, run to its end by its caller.  The result carries the
\* manager after it, the snapshots it yielded, the log of its retry loop,
\* whether the request failed for good and whether it ended by an exception
\* (of the stream).  Time passes while it sleeps: what it stores after the
\* loop is stamped After(now, log).
generate_response(cm, message, endpoint, resp, stream_mode, now) ==
    Requested(StoreUserMessage(EnsureConversation(cm, now), message, now),
              request_loop(endpoint, 0, <<>>), resp, stream_mode, now)

\* ---------------------------------------------------------------- state
VARIABLES
    clock,                      \* the second of time.time(), by its rank
    conversations,              \* ConversationManager.conversations
    cm_current_conversation_id, \* ConversationManager.current_conversation_id
    index_file,                 \* conversations/index.json
    chatbot,                    \* gr.Chatbot: the visible history
    current_conversation_id,    \* gr.State (app.py:438): the session's active id
    message_history,            \* gr.State (app.py:441): the interaction stack
    current_message_index,      \* gr.State (app.py:442)
    conversation_dropdown,      \* the value selected in the conversation list
    ops,                        \* the number of handler calls so far
    op,                         \* the handler that ran last
    outcome,                    \* how its request ended
    raised,                     \* whether it ended by an exception
    api,                        \* what the endpoint answered to its requests
    log,                        \* what its retry loop did
    snapshots,                  \* the snapshots generate_response yielded in it
    title_requests,             \* the title completion requests made in it
    title_ret,                  \* what update_title_with_ai returned in it
    args,                       \* SpecStore: the arguments of the last store call
    ret,                        \* what that call returned
    st_events,                  \* SpecStream: the stream given to the generator
    st_pos,                     \* the number of chunks it has consumed
    st,                         \* the locals of process_stream_response
    st_done                     \* whether the generator has returned

store == <<conversations, cm_current_conversation_id, index_file>>
session == <<chatbot, current_conversation_id, message_history, current_message_index>>
observed == <<op, outcome, raised, api, log, snapshots, title_requests, title_ret,
              args, ret>>
stream == <<st_events, st_pos, st, st_done>>
vars == <<clock, store, session, conversation_dropdown, ops, observed, stream>>

\* no store call was made from outside a handler
NoArgs == [id |-> NoId, role |-> <<>>, content |-> <<>>]

\* the ConversationManager object as a value, and its assignment
CM == [conversations |-> conversations,
       current_conversation_id |-> cm_current_conversation_id,
       index_file |-> index_file]

SetCM(cm) ==
    /\ conversations' = cm.conversations
    /\ cm_current_conversation_id' = cm.current_conversation_id
    /\ index_file' = cm.index_file

\* what a handler that starts no turn leaves in the observation variables
Observe(name, how) ==
    /\ UNCHANGED stream
    /\ ops' = ops + 1
    /\ op' = name
    /\ outcome' = how
    /\ raised' = FALSE
    /\ api' = <<>>
    /\ log' = <<>>
    /\ snapshots' = <<>>
    /\ title_requests' = 0
    /\ title_ret' = "none"
    /\ args' = NoArgs
    /\ ret' = "none"

\* ----------------------------------------------------------------- inputs
Messages == {<<>>, <<"a">>, <<" ">>}
Edits == {<<>>, <<"b">>, <<" ">>}
Titles == {<<>>, <<"T">>}

\* Endpoints: one that succeeds, two that fail once or twice and then
\* succeed, one that always fails.
Endpoints ==
    {<<Ok, Ok, Ok, Ok>>, <<"e1", Ok, Ok, Ok>>, <<"e1", "e2", Ok, Ok>>,
     <<"e2", "e2", "e1", "e2">>}

ContentChunk(c, dt) == Chunk(FALSE, <<>>, TRUE, c, dt)
ReasoningChunk(r, dt) == Chunk(TRUE, r, FALSE, <<>>, dt)

Response(events, abort_at) == [events |-> events, abort_at |-> abort_at]

\* Responses of the endpoint: no chunk at all, reasoning only, one content
\* chunk, whitespace only, and a stream that raises after its first content
\* chunk.
Responses ==
    {Response(<<>>, -1),
     Response(<<ReasoningChunk(<<"r">>, 0)>>, -1),
     Response(<<ContentChunk(<<"x">>, 0)>>, -1),
     Response(<<ContentChunk(<<" ">>, 0)>>, -1),
     Response(<<ContentChunk(<<"x">>, 0), ContentChunk(<<"y">>, 0)>>, 1)}

TitleResponse(ok, content) == [ok |-> ok, content |-> content]

TurnInput(stream_mode, endpoint, resp, tr) ==
    [stream_mode |-> stream_mode, endpoint |-> endpoint, resp |-> resp, tr |-> tr]

Succeeds == <<Ok, Ok, Ok, Ok>>
AlwaysFails == <<"e2", "e2", "e1", "e2">>
Plain == Response(<<ContentChunk(<<"x">>, 0)>>, -1)
Titled == TitleResponse(TRUE, <<" ", "\"", "t", "\"">>)

Untitled == TitleResponse(FALSE, <<>>)

\* What the environment answers in one turn: every response behind an
\* endpoint that succeeds at once, the plain response behind each endpoint,
\* the title request that raises, and a request without streaming.
Turns ==
    {TurnInput(TRUE, Succeeds, resp, Titled) : resp \in Responses}
    \cup {TurnInput(TRUE, endpoint, Plain, Titled) : endpoint \in Endpoints}
    \cup {TurnInput(TRUE, Succeeds, Plain, Untitled),
          TurnInput(FALSE, Succeeds, Plain, Titled)}

\* ------------------------------------------------------------------ start
NewConversation(id, now) ==
    [id |-> id, title |-> DefaultTitle, updated_at |-> now,
     messages |-> <<>>, likes |-> 0, dislikes |-> 0]

\* An index written by an earlier run: one conversation of one turn.
StoredIndex ==
    [i \in {1} |-> [NewConversation(1, 1) EXCEPT
                        !.messages = <<Msg(User, <<"a">>), Msg(Assistant, <<"x">>)>>]]

EmptyIndex == [i \in {} |-> NewConversation(i, i)]

\* create_interface (app.py:423-442, 517-520), on an index that is empty or
\* was written by an earlier run
create_interface(index, now) ==
    LET loaded == [conversations |-> index, current_conversation_id |-> NoId,
                   index_file |-> index]
        cm == IF DOMAIN loaded.conversations = {}
              THEN create_conversation(loaded, now).cm ELSE loaded
    IN  /\ conversations = cm.conversations
        /\ cm_current_conversation_id = cm.current_conversation_id
        /\ index_file = cm.index_file
        /\ current_conversation_id = cm.current_conversation_id
        /\ conversation_dropdown = cm.current_conversation_id
        /\ chatbot = <<>>
        /\ message_history = <<>>
        /\ current_message_index = -1

\* no stream is being read outside SpecStream
NoStream ==
    /\ st_events = <<>>
    /\ st_pos = 0
    /\ st = StreamStart
    /\ st_done = FALSE

Init ==
    /\ \/ clock = 1 /\ create_interface(EmptyIndex, 1)
       \/ clock = 2 /\ create_interface(StoredIndex, 2)
    /\ NoStream
    /\ ops = 0
    /\ op = "create_interface"
    /\ outcome = "none"
    /\ raised = FALSE
    /\ api = <<>>
    /\ log = <<>>
    /\ snapshots = <<>>
    /\ title_requests = 0
    /\ title_ret = "none"
    /\ args = NoArgs
    /\ ret = "none"

\* --------------------------------------------------------------- handlers
\* a second of the wall clock passes between two handlers
Tick ==
    /\ clock < MaxClock
    /\ clock' = clock + 1
    /\ UNCHANGED <<store, session, conversation_dropdown, ops, observed, stream>>

\* create_new_conversation (app.py:586-591)
create_new_conversation ==
    /\ SetCM(create_conversation(CM, clock).cm)
    /\ chatbot' = <<>>
    /\ current_conversation_id' = clock
    /\ message_history' = <<>>
    /\ current_message_index' = -1
    /\ Observe("create_new_conversation", "none")
    /\ UNCHANGED <<clock, conversation_dropdown>>

\* clear_current_chat (app.py:594-596)
clear_current_chat ==
    /\ chatbot' = <<>>
    /\ message_history' = <<>>
    /\ current_message_index' = -1
    /\ Observe("clear_current_chat", "none")
    /\ UNCHANGED <<clock, store, current_conversation_id, conversation_dropdown>>

\* the history load_conversation builds from the stored messages (app.py:615-620)
LoadedHistory(messages) == [i \in DOMAIN messages |-> Msg(messages[i].role, messages[i].content)]

\* load_conversation (app.py:599-626), on the user's choice of another
\* conversation of the list; its outputs are the chatbot, the title box and
\* the statistics
load_conversation(id) ==
    /\ id \in DOMAIN conversations
    /\ id # conversation_dropdown
    /\ conversation_dropdown' = id
    /\ cm_current_conversation_id' = id
    /\ chatbot' = LoadedHistory(conversations[id].messages)
    /\ Observe("load_conversation", "none")
    /\ UNCHANGED <<clock, conversations, index_file, current_conversation_id,
                   message_history, current_message_index>>

\* a deletion that creates no conversation in place of the deleted one
delete_conversation_NoReplacement ==
    /\ IF conversation_dropdown = NoId
       THEN UNCHANGED store
       ELSE SetCM(cm_delete_conversation(CM, conversation_dropdown).cm)
    /\ current_conversation_id' = NoId
    /\ chatbot' = <<>>
    /\ Observe("delete_conversation", "none")
    /\ UNCHANGED <<clock, message_history, current_message_index, conversation_dropdown>>

\* delete_conversation (app.py:629-645), on the conversation selected in the
\* list; with none selected it returns "" for the session's id
delete_conversation ==
    /\ IF conversation_dropdown = NoId
       THEN /\ current_conversation_id' = NoId
            /\ UNCHANGED store
       ELSE /\ SetCM(create_conversation(
                        cm_delete_conversation(CM, conversation_dropdown).cm, clock).cm)
                    /\ current_conversation_id' = clock
    /\ chatbot' = <<>>
    /\ Observe("delete_conversation", "none")
    /\ UNCHANGED <<clock, message_history, current_message_index, conversation_dropdown>>

\* rename_conversation (app.py:648-660), on the conversation selected in the list
rename_conversation(new_title) ==
    /\ IF conversation_dropdown = NoId \/ IsEmpty(new_title)
       THEN UNCHANGED store
       ELSE SetCM(update_conversation_title(CM, conversation_dropdown, new_title).cm)
    /\ Observe("rename_conversation", "none")
    /\ UNCHANGED <<clock, session, conversation_dropdown>>

\* ------------------------------------------------------------------ turns
\* The part respond, retry_last_message and save_edited_message share
\* (app.py:560-583, 709-743, 803-837): generate_response is run on message
\* for the manager cm, with chat_history the history the handler has built
\* and conversation_id the session's id.
\*   Streaming: an assistant entry is appended to chat_history and set to
\* the content of every snapshot that has some; each snapshot is yielded.
\* When the generator ends, a non-empty content is written with
\* update_last_message and the title is updated.  An exception of the stream
\* ends the handler where it is.
\*   Not streaming: the handler unpacks the generator itself into (thinking,
\* full_response); the generator yields one pair and ends, so the unpacking
\* raises ValueError after generate_response has run, and the handler ends
\* there without a yield.
\*   yielded tells whether the handler yielded at all: the outputs of a
\* handler that never yields are not written.
Saving(g, stream_mode) ==
    stream_mode /\ ~g.raised /\ ~IsEmpty(LastContent(g.snapshots))

\* app.py:573-575: the reply is written and the title updated
SaveReply(g, conversation_id, stream_mode, tr, later) ==
    IF Saving(g, stream_mode)
    THEN update_title_with_ai(
            update_last_message(g.cm, conversation_id, LastContent(g.snapshots), later).cm,
            conversation_id, tr)
    ELSE [cm |-> g.cm, ret |-> FALSE, requests |-> 0]

TurnResult(g, saved, chat_history, stream_mode, endpoint, later) ==
    [cm |-> saved.cm,
     later |-> later,
     yielded |-> stream_mode /\ g.snapshots # <<>>,
     chat_history |-> Append(chat_history, Msg(Assistant, LastContent(g.snapshots))),
     outcome |-> IF g.failed THEN "failed"
                 ELSE IF g.raised THEN "aborted" ELSE "completed",
     raised |-> g.raised \/ ~stream_mode,
     endpoint |-> endpoint,
     log |-> g.log,
     snapshots |-> g.snapshots,
     title_requests |-> saved.requests,
     title_ret |-> IF ~Saving(g, stream_mode) THEN "none"
                   ELSE IF saved.ret THEN "true" ELSE "false"]

TurnAfter(g, chat_history, conversation_id, stream_mode, endpoint, tr, later) ==
    TurnResult(g, SaveReply(g, conversation_id, stream_mode, tr, later),
               chat_history, stream_mode, endpoint, later)

TurnOf(g, chat_history, conversation_id, stream_mode, endpoint, tr, now) ==
    TurnAfter(g, chat_history, conversation_id, stream_mode, endpoint, tr, After(now, g.log))

Turn(cm, chat_history, conversation_id, message, stream_mode, endpoint, resp, tr, now) ==
    TurnOf(generate_response(cm, message, endpoint, resp, stream_mode, now),
           chat_history, conversation_id, stream_mode, endpoint, tr, now)

\* what a turn leaves in the store, the clock and the observation variables
TurnDone(name, t) ==
    /\ UNCHANGED stream
    /\ ops' = ops + 1
    /\ t.later <= MaxClock
    /\ SetCM(t.cm)
    /\ clock' = t.later
    /\ op' = name
    /\ outcome' = t.outcome
    /\ raised' = t.raised
    /\ api' = t.endpoint
    /\ log' = t.log
    /\ snapshots' = t.snapshots
    /\ title_requests' = t.title_requests
    /\ title_ret' = t.title_ret
    /\ args' = NoArgs
    /\ ret' = "none"

\* a handler that returns before it does anything
NoOp(name) ==
    /\ Observe(name, "noop")
    /\ UNCHANGED <<clock, store, session, conversation_dropdown>>

\* app.py:540-543: the conversation respond works on
RespondConversation(cm, conversation_id, now) ==
    IF conversation_id = NoId THEN create_conversation(cm, now)
    ELSE [cm |-> cm, ret |-> conversation_id]

\* app.py:566-570: the outputs of respond's yields
RespondYields(t, conversation_id, new_message_history) ==
    /\ TurnDone("respond", t)
    /\ IF t.yielded
       THEN /\ chatbot' = t.chat_history
            /\ current_conversation_id' = conversation_id
            /\ message_history' = new_message_history
            /\ current_message_index' = Len(new_message_history) - 1
       ELSE UNCHANGED session
    /\ UNCHANGED conversation_dropdown

\* app.py:545-562, on the conversation found or created
RespondIn(found, chat_history, message, stream_mode, endpoint, resp, tr) ==
    RespondYields(Turn(add_message(found.cm, found.ret, User, message, clock).cm,
                       chat_history, found.ret, message, stream_mode, endpoint, resp,
                       tr, clock),
                  found.ret, Append(message_history, chat_history))

\* respond without the test of the message
respond_NoCheck(message, stream_mode, endpoint, resp, tr) ==
    RespondIn(RespondConversation(CM, current_conversation_id, clock),
              Append(chatbot, Msg(User, message)),
              message, stream_mode, endpoint, resp, tr)

\* respond (app.py:536-583)
respond(message, stream_mode, endpoint, resp, tr) ==
    IF IsEmpty(message) THEN NoOp("respond")
    ELSE RespondIn(RespondConversation(CM, current_conversation_id, clock),
                   Append(chatbot, Msg(User, message)),
                   message, stream_mode, endpoint, resp, tr)

\* the index (from 1) of the last user entry of a history, 0 if it has none
LastUserIndex(chat_history) ==
    IF \E i \in DOMAIN chat_history : chat_history[i].role = User
    THEN CHOOSE i \in DOMAIN chat_history :
            /\ chat_history[i].role = User
            /\ \A j \in (i + 1)..Len(chat_history) : chat_history[j].role # User
    ELSE 0

EndsWithAssistant(chat_history) ==
    chat_history # <<>> /\ Last(chat_history).role = Assistant

\* the outputs of the yields of retry_last_message and save_edited_message:
\* the chatbot changes, the session's id, the stack and the index are
\* yielded as they were received
RegenerateYields(name, t) ==
    /\ TurnDone(name, t)
    /\ chatbot' = IF t.yielded THEN t.chat_history ELSE chatbot
    /\ UNCHANGED <<current_conversation_id, message_history,
                   current_message_index, conversation_dropdown>>

\* app.py:702-706, 796-800: a trailing assistant entry is dropped from the
\* history, and the last stored message with it
DropReply(chat_history) ==
    IF EndsWithAssistant(chat_history) THEN Front(chat_history) ELSE chat_history

DropStoredReply(cm, chat_history, conversation_id, now) ==
    IF EndsWithAssistant(chat_history)
    THEN remove_last_message(cm, conversation_id, now).cm
    ELSE cm

\* retry_last_message without the test that a user entry was found
retry_last_message_NoUserCheck(stream_mode, endpoint, resp, tr) ==
    IF chatbot = <<>> \/ current_message_index < 0
    THEN NoOp("retry_last_message")
    ELSE RegenerateYields("retry_last_message",
            Turn(DropStoredReply(CM, chatbot, current_conversation_id, clock),
                 DropReply(chatbot), current_conversation_id,
                 IF LastUserIndex(chatbot) = 0 THEN <<>>
                 ELSE chatbot[LastUserIndex(chatbot)].content,
                 stream_mode, endpoint, resp, tr, clock))

\* retry_last_message (app.py:688-743).  Its yields of the streaming loop
\* carry the first six of the seven outputs; they are taken by position.
retry_last_message(stream_mode, endpoint, resp, tr) ==
    IF \/ chatbot = <<>>
       \/ current_message_index < 0
       \/ LastUserIndex(chatbot) = 0
       \/ IsEmpty(chatbot[LastUserIndex(chatbot)].content)
    THEN NoOp("retry_last_message")
    ELSE RegenerateYields("retry_last_message",
            Turn(DropStoredReply(CM, chatbot, current_conversation_id, clock),
                 DropReply(chatbot), current_conversation_id,
                 chatbot[LastUserIndex(chatbot)].content,
                 stream_mode, endpoint, resp, tr, clock))

\* app.py:788-794: the last user entry of the history is overwritten, and
\* the last stored message with it
EditHistory(chat_history, edited_content) ==
    IF LastUserIndex(chat_history) > 0
    THEN [chat_history EXCEPT ![LastUserIndex(chat_history)].content = edited_content]
    ELSE chat_history

EditStored(cm, chat_history, conversation_id, edited_content, now) ==
    IF LastUserIndex(chat_history) > 0
    THEN update_last_message(cm, conversation_id, edited_content, now).cm
    ELSE cm

\* save_edited_message (app.py:784-837).  Its yields of the streaming loop
\* carry the first seven of the eight outputs; they are taken by position.
save_edited_message(edited_content, stream_mode, endpoint, resp, tr) ==
    IF IsEmpty(edited_content) \/ chatbot = <<>>
    THEN NoOp("save_edited_message")
    ELSE RegenerateYields("save_edited_message",
            Turn(DropStoredReply(
                    EditStored(CM, chatbot, current_conversation_id, edited_content, clock),
                    EditHistory(chatbot, edited_content), current_conversation_id, clock),
                 DropReply(EditHistory(chatbot, edited_content)),
                 current_conversation_id, edited_content,
                 stream_mode, endpoint, resp, tr, clock))

\* ---------------------------------------------------------- specification
\* Spec: every handler, with every input and every answer of the environment
Next ==
    \/ Tick
    \/ ops < MaxOps /\ create_new_conversation
    \/ ops < MaxOps /\ clear_current_chat
    \/ ops < MaxOps /\ \E id \in DOMAIN conversations : load_conversation(id)
    \/ ops < MaxOps /\ delete_conversation
    \/ ops < MaxOps /\ \E new_title \in Titles : rename_conversation(new_title)
    \/ ops < MaxOps /\ \E message \in Messages, turn \in Turns :
            respond(message, turn.stream_mode, turn.endpoint, turn.resp, turn.tr)
    \/ ops < MaxOps /\ \E turn \in Turns :
            retry_last_message(turn.stream_mode, turn.endpoint, turn.resp, turn.tr)
    \/ ops < MaxOps /\ \E edited_content \in Edits, turn \in Turns :
            save_edited_message(edited_content, turn.stream_mode, turn.endpoint,
                                turn.resp, turn.tr)

Spec == Init /\ [][Next]_vars

\* SpecPlain: longer sessions of the handlers that select a conversation and
\* run turns, where the user sends "a" and edits to "b" and the endpoint
\* either answers the plain response at once or always fails.
PlainTurns ==
    {TurnInput(TRUE, Succeeds, Plain, Titled), TurnInput(TRUE, AlwaysFails, Plain, Titled)}

NextPlain ==
    \/ Tick
    \/ ops < MaxPlainOps /\ create_new_conversation
    \/ ops < MaxPlainOps /\ \E id \in DOMAIN conversations : load_conversation(id)
    \/ ops < MaxPlainOps /\ \E turn \in PlainTurns :
            respond(<<"a">>, turn.stream_mode, turn.endpoint, turn.resp, turn.tr)
    \/ ops < MaxPlainOps /\ \E turn \in PlainTurns :
            retry_last_message(turn.stream_mode, turn.endpoint, turn.resp, turn.tr)
    \/ ops < MaxPlainOps /\ \E turn \in PlainTurns :
            save_edited_message(<<"b">>, turn.stream_mode, turn.endpoint,
                                turn.resp, turn.tr)

SpecPlain == Init /\ [][NextPlain]_vars

\* ------------------------------------------------------------- SpecStream
\* process_stream_response alone, chunk by chunk, on every stream of at most
\* MaxEvents chunks: a chunk carries reasoning or none, and no content, an
\* empty content or a content of one to three characters; it arrives 0, 15
\* or 30 ms after the generator last read the clock.
StreamContents == {<<>>, <<"a">>, <<".">>, <<"a", ".">>, <<"a", "b", "c">>}
StreamDelays == {0, 15, 30}

StreamChunks ==
    {Chunk(hr, IF hr THEN <<"r">> ELSE <<>>, FALSE, <<>>, dt) :
        hr \in BOOLEAN, dt \in StreamDelays}
    \cup {Chunk(hr, IF hr THEN <<"r">> ELSE <<>>, TRUE, c, dt) :
        hr \in BOOLEAN, c \in StreamContents, dt \in StreamDelays}

StreamInputs == UNION {[1..n -> StreamChunks] : n \in 0..MaxEvents}

InitStream ==
    /\ clock = 1
    /\ create_interface(EmptyIndex, 1)
    /\ ops = 0
    /\ op = "create_interface"
    /\ outcome = "none"
    /\ raised = FALSE
    /\ api = <<>>
    /\ log = <<>>
    /\ snapshots = <<>>
    /\ title_requests = 0
    /\ title_ret = "none"
    /\ args = NoArgs
    /\ ret = "none"
    /\ st_events \in StreamInputs
    /\ st_pos = 0
    /\ st = StreamStart
    /\ st_done = FALSE

\* one iteration of the loop of process_stream_response (app.py:50-76)
NextChunk ==
    /\ ~st_done
    /\ st_pos < Len(st_events)
    /\ st' = StreamChunk(st, st_events[st_pos + 1])
    /\ st_pos' = st_pos + 1
    /\ UNCHANGED <<st_events, st_done>>
    /\ UNCHANGED <<clock, store, session, conversation_dropdown, ops, observed>>

\* the stream is exhausted: the flush and the return (app.py:78-82)
Exhausted ==
    /\ ~st_done
    /\ st_pos = Len(st_events)
    /\ st' = StreamFlush(st)
    /\ st_done' = TRUE
    /\ UNCHANGED <<st_events, st_pos>>
    /\ UNCHANGED <<clock, store, session, conversation_dropdown, ops, observed>>

NextStream == NextChunk \/ Exhausted

SpecStream == InitStream /\ [][NextStream]_vars

\* SpecTurns: sends, retries and edits with streaming, and nothing else
StreamTurns == {turn \in Turns : turn.stream_mode}

NextTurns ==
    \/ Tick
    \/ ops < MaxTurnOps /\ \E message \in Messages, turn \in StreamTurns :
            respond(message, turn.stream_mode, turn.endpoint, turn.resp, turn.tr)
    \/ ops < MaxTurnOps /\ \E turn \in StreamTurns :
            retry_last_message(turn.stream_mode, turn.endpoint, turn.resp, turn.tr)
    \/ ops < MaxTurnOps /\ \E edited_content \in Edits, turn \in StreamTurns :
            save_edited_message(edited_content, turn.stream_mode, turn.endpoint,
                                turn.resp, turn.tr)

SpecTurns == Init /\ [][NextTurns]_vars

\* SpecEdge: a blank message is sent and answered, a conversation is loaded,
\* and the last turn is regenerated or edited
NextEdge ==
    \/ Tick
    \/ ops < MaxEdgeOps /\ \E id \in DOMAIN conversations : load_conversation(id)
    \/ ops < MaxEdgeOps /\ \E turn \in PlainTurns :
            respond(<<" ">>, turn.stream_mode, turn.endpoint, turn.resp, turn.tr)
    \/ ops < MaxEdgeOps /\ \E turn \in PlainTurns :
            retry_last_message(turn.stream_mode, turn.endpoint, turn.resp, turn.tr)
    \/ ops < MaxEdgeOps /\ \E turn \in PlainTurns :
            save_edited_message(<<"b">>, turn.stream_mode, turn.endpoint,
                                turn.resp, turn.tr)

SpecEdge == Init /\ [][NextEdge]_vars

\* ------------------------------------------------------------------- undo
\* The outputs the event of the undo button is bound to (app.py:868-870).
undo_btn_outputs == <<"chatbot", "message_history", "current_message_index">>

Min(a, b) == IF a < b THEN a ELSE b

\* undo_values without the test of the index
undo_values_NoBoundary(chat_history, history, current_index) ==
    <<chat_history, history, current_index - 1>>

\* app.py:680-685: the values undo_last_message returns, two in both branches
undo_values(chat_history, history, current_index) ==
    IF current_index > 0
    THEN <<SubSeq(history, 1, Min(current_index, Len(history))), current_index - 1>>
    ELSE <<chat_history, current_index>>

\* The handler as the button runs it.  A return with fewer values than the
\* event has outputs is refused ("didn't receive enough output values"): the
\* call fails and no output is written.  Values are written by position.
undo_last_message ==
    LET values == undo_values(chatbot, message_history, current_message_index)
        refused == Len(values) < Len(undo_btn_outputs)
    IN /\ IF refused
          THEN UNCHANGED session
          ELSE /\ chatbot' = values[1]
               /\ message_history' = values[2]
               /\ current_message_index' = values[3]
               /\ UNCHANGED current_conversation_id
       /\ ops' = ops + 1
       /\ op' = "undo_last_message"
       /\ outcome' = IF refused THEN "refused" ELSE "assigned"
       /\ raised' = refused
       /\ api' = <<>>
       /\ log' = <<>>
       /\ snapshots' = <<>>
       /\ title_requests' = 0
       /\ title_ret' = "none"
       /\ args' = NoArgs
       /\ ret' = "none"
       /\ UNCHANGED <<clock, store, conversation_dropdown, stream>>

\* SpecUndo: sends with the plain answers, and undos
NextUndo ==
    \/ Tick
    \/ ops < MaxUndoOps /\ \E message \in Messages, t \in PlainTurns :
            respond(message, t.stream_mode, t.endpoint, t.resp, t.tr)
    \/ ops < MaxUndoOps /\ undo_last_message

SpecUndo == Init /\ [][NextUndo]_vars

\* SpecStack: the handlers that read or write the interaction stack
NextStack ==
    \/ Tick
    \/ ops < MaxStackOps /\ create_new_conversation
    \/ ops < MaxStackOps /\ clear_current_chat
    \/ ops < MaxStackOps /\ undo_last_message
    \/ ops < MaxStackOps /\ \E message \in Messages, turn \in Turns :
            respond(message, turn.stream_mode, turn.endpoint, turn.resp, turn.tr)
    \/ ops < MaxStackOps /\ \E turn \in Turns :
            retry_last_message(turn.stream_mode, turn.endpoint, turn.resp, turn.tr)
    \/ ops < MaxStackOps /\ \E edited_content \in Edits, turn \in Turns :
            save_edited_message(edited_content, turn.stream_mode, turn.endpoint,
                                turn.resp, turn.tr)

SpecStack == Init /\ [][NextStack]_vars

\* SpecStore: the methods of ConversationManager that write messages, called
\* one after the other with every argument, on the store create_interface
\* leaves.  args and ret keep the arguments and the result of the last call.
StoreIds == {1, 9}
StoreRoles == {User, Assistant}
StoreContents == {<<>>, <<" ">>, <<"a">>, <<"b">>}

StoreCall(name, id, role, content, result) ==
    /\ SetCM(result.cm)
    /\ ops' = ops + 1
    /\ op' = name
    /\ args' = [id |-> id, role |-> role, content |-> content]
    /\ ret' = IF result.ret THEN "true" ELSE "false"
    /\ UNCHANGED <<clock, session, conversation_dropdown, stream>>
    /\ UNCHANGED <<outcome, raised, api, log, snapshots, title_requests, title_ret>>

CallAddMessage(id, role, content) ==
    StoreCall("add_message", id, role, content, add_message(CM, id, role, content, clock))

CallUpdateLastMessage(id, content) ==
    StoreCall("update_last_message", id, <<>>, content,
              update_last_message(CM, id, content, clock))

CallRemoveLastMessage(id) ==
    StoreCall("remove_last_message", id, <<>>, <<>>, remove_last_message(CM, id, clock))

NextStore ==
    \/ Tick
    \/ ops < MaxStoreOps /\ \E id \in StoreIds, role \in StoreRoles, content \in StoreContents :
            CallAddMessage(id, role, content)
    \/ ops < MaxStoreOps /\ \E id \in StoreIds, content \in StoreContents :
            CallUpdateLastMessage(id, content)
    \/ ops < MaxStoreOps /\ \E id \in StoreIds : CallRemoveLastMessage(id)

SpecStore == Init /\ [][NextStore]_vars

\* ---------------------------------------------------------- like, dislike
\* like_message and dislike_message (app.py:746-767): the conversation is
\* the session's; the five values returned leave the visible history, the
\* stack and the index as they are and refresh the choices of the dropdown.
like_message ==
    /\ IF current_conversation_id # NoId
       THEN SetCM(like_conversation(CM, current_conversation_id, clock).cm)
       ELSE UNCHANGED store
    /\ Observe("like_message", "none")
    /\ UNCHANGED <<clock, session, conversation_dropdown>>

dislike_message ==
    /\ IF current_conversation_id # NoId
       THEN SetCM(dislike_conversation(CM, current_conversation_id, clock).cm)
       ELSE UNCHANGED store
    /\ Observe("dislike_message", "none")
    /\ UNCHANGED <<clock, session, conversation_dropdown>>

\* SpecManager: every method of ConversationManager that writes, called
\* with ids the store knows and an id it does not know, and the two buttons
ManagerTitles == {<<"T">>}
TitleAnswers == {Titled, Untitled}

CallCreateConversation ==
    /\ SetCM(create_conversation(CM, clock).cm)
    /\ ops' = ops + 1
    /\ op' = "create_conversation"
    /\ args' = NoArgs
    /\ ret' = "id"
    /\ UNCHANGED <<clock, session, conversation_dropdown, stream>>
    /\ UNCHANGED <<outcome, raised, api, log, snapshots, title_requests, title_ret>>

CallLikeConversation(id) ==
    StoreCall("like_conversation", id, <<>>, <<>>, like_conversation(CM, id, clock))

CallDislikeConversation(id) ==
    StoreCall("dislike_conversation", id, <<>>, <<>>, dislike_conversation(CM, id, clock))

CallUpdateConversationTitle(id, title) ==
    StoreCall("update_conversation_title", id, <<>>, title,
              update_conversation_title(CM, id, title))

CallDeleteConversation(id) ==
    StoreCall("delete_conversation", id, <<>>, <<>>, cm_delete_conversation(CM, id))

CallUpdateTitleWithAi(id, tr) ==
    StoreCall("update_title_with_ai", id, <<>>, <<>>, update_title_with_ai(CM, id, tr))

NextManager ==
    \/ Tick
    \/ ops < MaxManagerOps /\ CallCreateConversation
    \/ ops < MaxManagerOps /\ \E id \in StoreIds, role \in StoreRoles :
            CallAddMessage(id, role, <<"a">>)
    \/ ops < MaxManagerOps /\ \E id \in StoreIds : CallUpdateLastMessage(id, <<"b">>)
    \/ ops < MaxManagerOps /\ \E id \in StoreIds : CallRemoveLastMessage(id)
    \/ ops < MaxManagerOps /\ \E id \in StoreIds : CallLikeConversation(id)
    \/ ops < MaxManagerOps /\ \E id \in StoreIds : CallDislikeConversation(id)
    \/ ops < MaxManagerOps /\ \E id \in StoreIds, title \in ManagerTitles :
            CallUpdateConversationTitle(id, title)
    \/ ops < MaxManagerOps /\ \E id \in StoreIds : CallDeleteConversation(id)
    \/ ops < MaxManagerOps /\ \E id \in StoreIds, tr \in TitleAnswers :
            CallUpdateTitleWithAi(id, tr)
    \/ ops < MaxManagerOps /\ like_message
    \/ ops < MaxManagerOps /\ dislike_message

SpecManager == Init /\ [][NextManager]_vars

\* ------------------------------------------------------------------ claims
HasContent(events) ==
    \E i \in DOMAIN events : events[i].has_content /\ events[i].content # <<>>

\* C1: for every stream that carries at least one non-empty content
\* fragment, whatever the arrival times, the content of the last snapshot
\* process_stream_response emits is the concatenation, in order, of all the
\* content fragments.
C1_FinalSnapshotIsWholeContent ==
    (st_done /\ HasContent(st_events))
        => /\ st.yields # <<>>
           /\ Last(st.yields).content = ConcatContent(st_events)

\* C1, its case: the generator has returned after a stream whose last
\* content fragment met no flush condition, so that the last snapshot is the
\* one of the final flush.
C1_Witness ==
    /\ st_done
    /\ HasContent(st_events)
    /\ st.buffer # <<>>
    /\ Len(st_events) = 2
    /\ Len(st.yields) >= 2

\* ------------------------------------------- claims on the retry loop
TurnHandlers == {"respond", "retry_last_message", "save_edited_message"}

\* the steps of the three handlers that run a turn on the input turn
RespondStep(message, turn) ==
    /\ op' = "respond"
    /\ outcome' # "noop"
    /\ respond(message, turn.stream_mode, turn.endpoint, turn.resp, turn.tr)

RetryStep(turn) ==
    /\ op' = "retry_last_message"
    /\ outcome' # "noop"
    /\ retry_last_message(turn.stream_mode, turn.endpoint, turn.resp, turn.tr)

EditStep(edited_content, turn) ==
    /\ op' = "save_edited_message"
    /\ outcome' # "noop"
    /\ save_edited_message(edited_content, turn.stream_mode, turn.endpoint,
                           turn.resp, turn.tr)

TurnStep(turn) ==
    \/ \E message \in Messages : RespondStep(message, turn)
    \/ RetryStep(turn)
    \/ \E edited_content \in Edits : EditStep(edited_content, turn)

\* the number of requests an endpoint fails before it first succeeds
FailuresBeforeSuccess(endpoint) ==
    IF \E i \in DOMAIN endpoint : endpoint[i] = Ok
    THEN (CHOOSE i \in DOMAIN endpoint :
            endpoint[i] = Ok /\ \A j \in 1..(i - 1) : endpoint[j] # Ok) - 1
    ELSE Len(endpoint)

\* k failed requests, each followed by its sleep of 2 * i seconds
RECURSIVE Backoff(_)
Backoff(k) ==
    IF k = 0 THEN <<>>
    ELSE Backoff(k - 1) \o <<Event("request", k), Event("fail", k), Event("sleep", 2 * k)>>

IsErrorText(content) == content # <<>> /\ content[1] = ErrorPrefix

\* how many assistant messages of a list carry an error text
ErrorTexts(messages) ==
    Cardinality({i \in DOMAIN messages :
        messages[i].role = Assistant /\ IsErrorText(messages[i].content)})

\* how many messages of a list have the role
CountRole(messages, role) ==
    Cardinality({i \in DOMAIN messages : messages[i].role = role})

StoredMessages(convs, id) == IF id \in DOMAIN convs THEN convs[id].messages ELSE <<>>

AllIds == DOMAIN conversations \cup DOMAIN conversations'

\* C2: behind an endpoint that fails k times (k = 0, 1, 2) and then
\* succeeds, the retry loop of generate_response issues exactly k + 1
\* requests and sleeps exactly k times, the i-th sleep of 2 * i seconds
\* after the i-th failure and before request i + 1; the turn goes on with
\* the stream and stores no error text as an assistant message.
C2_RetryThenSucceed ==
    [][(/\ op' \in TurnHandlers
        /\ outcome' # "noop"
        /\ ops' = ops + 1
        /\ FailuresBeforeSuccess(api') <= 2)
            => /\ log' = Backoff(FailuresBeforeSuccess(api'))
                            \o <<Event("request", FailuresBeforeSuccess(api') + 1)>>
               /\ outcome' \in {"completed", "aborted"}
               /\ \A id \in AllIds :
                    ErrorTexts(StoredMessages(conversations', id))
                        <= ErrorTexts(StoredMessages(conversations, id))
      ]_vars

\* C2, its case: a turn has ended whose endpoint failed twice and then
\* succeeded, after sleeps of 2 and 4 seconds, and the reply is stored.
C2_Witness ==
    /\ op \in TurnHandlers
    /\ outcome = "completed"
    /\ FailuresBeforeSuccess(api) = 2
    /\ log = <<Event("request", 1), Event("fail", 1), Event("sleep", 2),
               Event("request", 2), Event("fail", 2), Event("sleep", 4),
               Event("request", 3)>>
    /\ StoredMessages(conversations, current_conversation_id) # <<>>
    /\ Last(StoredMessages(conversations, current_conversation_id)).role = Assistant

\* the retry loop behind an endpoint that always fails: three requests, two
\* sleeps, nothing after the third failure
ThreeFailures == Backoff(2) \o <<Event("request", 3), Event("fail", 3)>>

\* the text of a terminal error: the last error and the four hints
CarriesErrorAndHints(content, error) ==
    /\ Len(content) = 3 + Len(Hints)
    /\ content[1] = ErrorPrefix
    /\ content[2] = error
    /\ SubSeq(content, 4, Len(content)) = Hints

C4_RetryAfterError ==
    [][\A turn \in Turns :
        (op \in TurnHandlers /\ outcome = "failed" /\ RetryStep(turn))
            => /\ log' # <<>>
               /\ StoredMessages(conversations, current_conversation_id) # <<>>
               /\ Last(StoredMessages(conversations, current_conversation_id)).role = Assistant
               /\ IsErrorText(Last(StoredMessages(conversations, current_conversation_id)).content)
               /\ CountRole(StoredMessages(conversations', current_conversation_id), Assistant)
                    \in {CountRole(StoredMessages(conversations, current_conversation_id),
                                   Assistant) - 1,
                         CountRole(StoredMessages(conversations, current_conversation_id),
                                   Assistant)}
               /\ \A id \in AllIds :
                    CountRole(StoredMessages(conversations', id), User)
                        = CountRole(StoredMessages(conversations, id), User)
      ]_vars

\* a list of messages that ends with a user message and an assistant reply
EndsWithTurn(messages) ==
    /\ Len(messages) >= 2
    /\ messages[Len(messages) - 1].role = User
    /\ Last(messages).role = Assistant

\* C5: an Edit with non-empty content, on a conversation whose last turn is
\* a user message followed by an assistant reply, overwrites that user
\* message in place: the stored conversation has the edited content where
\* the old user message was and as many user messages as before, and so has
\* the visible history once the turn has yielded.
C5_EditInPlace ==
    [][\A turn \in Turns, edited_content \in Edits :
        (/\ EndsWithTurn(StoredMessages(conversations, current_conversation_id))
         /\ EndsWithTurn(chatbot)
         /\ EditStep(edited_content, turn))
            => /\ Len(StoredMessages(conversations', current_conversation_id))
                    >= Len(StoredMessages(conversations, current_conversation_id)) - 1
               /\ StoredMessages(conversations', current_conversation_id)
                        [Len(StoredMessages(conversations, current_conversation_id)) - 1]
                    = Msg(User, edited_content)
               /\ CountRole(StoredMessages(conversations', current_conversation_id), User)
                    = CountRole(StoredMessages(conversations, current_conversation_id), User)
               /\ (turn.stream_mode /\ snapshots' # <<>>)
                    => chatbot'[Len(chatbot) - 1] = Msg(User, edited_content)
      ]_vars

\* C6: after a streaming Send of a non-empty message whose stream completes
\* with non-empty final content, the session's conversation ends in the
\* store with the user's message followed by the assistant's final content,
\* and has one assistant message more than before.
C6_SendStored ==
    [][\A turn \in Turns, message \in Messages :
        (/\ turn.stream_mode
         /\ RespondStep(message, turn)
         /\ outcome' = "completed"
         /\ snapshots' # <<>>
         /\ Last(snapshots').content # <<>>)
            => /\ Len(StoredMessages(conversations', current_conversation_id')) >= 2
               /\ StoredMessages(conversations', current_conversation_id')
                        [Len(StoredMessages(conversations', current_conversation_id')) - 1]
                    = Msg(User, message)
               /\ Last(StoredMessages(conversations', current_conversation_id'))
                    = Msg(Assistant, Last(snapshots').content)
               /\ CountRole(StoredMessages(conversations', current_conversation_id'), Assistant)
                    = CountRole(StoredMessages(conversations, current_conversation_id'), Assistant) + 1
      ]_vars

\* C7: when a send, a retry or an edit has returned, the visible history
\* does not end with an assistant entry of empty content.
C7_NoEmptyAssistantEntry ==
    (op \in TurnHandlers /\ outcome # "noop")
        => ~(/\ chatbot # <<>>
             /\ Last(chatbot).role = Assistant
             /\ Last(chatbot).content = <<>>)

\* ------------------------------------------------------ claims on titles
\* C8: when the request of generate_conversation_title raises,
\* update_title_with_ai leaves the title of the conversation as it was.
C8_TitleKeptOnFailure ==
    [][\A turn \in Turns :
        (/\ ~turn.tr.ok
         /\ current_conversation_id \in DOMAIN conversations
         /\ TurnStep(turn)
         /\ title_requests' = 1)
            => conversations'[current_conversation_id].title
                    = conversations[current_conversation_id].title
      ]_vars

\* C9: update_title_with_ai changes a title only of a conversation that
\* holds at least 2 messages; called at the end of a turn on a conversation
\* of 0 or 1 messages, or on an id the store does not know, it returns
\* false, issues no request and leaves the title as it was.
C9_TitleNeedsTwoMessages ==
    [][(op' \in TurnHandlers /\ title_ret' # "none")
        => /\ (\/ current_conversation_id' \notin DOMAIN conversations'
               \/ Len(StoredMessages(conversations', current_conversation_id')) < 2)
                => /\ title_ret' = "false"
                   /\ title_requests' = 0
                   /\ (/\ current_conversation_id = current_conversation_id'
                       /\ current_conversation_id \in DOMAIN conversations
                       /\ current_conversation_id \in DOMAIN conversations')
                        => conversations'[current_conversation_id].title
                                = conversations[current_conversation_id].title
           /\ title_requests' > 0
                => Len(StoredMessages(conversations', current_conversation_id')) >= 2
      ]_vars

\* C9, its case: a turn has stored a reply in a conversation of one message
\* and the title update returned false without a request.
C9_Witness ==
    /\ op \in TurnHandlers
    /\ title_ret = "false"
    /\ title_requests = 0
    /\ Len(StoredMessages(conversations, current_conversation_id)) = 1
    /\ conversations[current_conversation_id].title = DefaultTitle

\* ---------------------------------------------------- claims on deletion
\* C10: the deletion of the selected conversation leaves a conversation in
\* the store that both the session's id and the manager's current id name,
\* and the store holds a conversation in every reachable state.
C10_NeverWithoutConversation ==
    /\ [](DOMAIN conversations # {})
    /\ [][(conversation_dropdown # NoId /\ delete_conversation)
            => /\ current_conversation_id' \in DOMAIN conversations'
               /\ cm_current_conversation_id' = current_conversation_id'
         ]_vars

\* C10, its case: the selected conversation has been deleted, and the
\* session and the manager are on the conversation created in its place.
C10_Witness ==
    /\ op = "delete_conversation"
    /\ conversation_dropdown # NoId
    /\ conversation_dropdown \notin DOMAIN conversations
    /\ current_conversation_id \in DOMAIN conversations
    /\ cm_current_conversation_id = current_conversation_id
    /\ conversations[current_conversation_id].messages = <<>>

\* ------------------------------------------------- claims on the store
\* a text without a character other than white space (the empty one too)
OnlyWhitespace(content) ==
    \A i \in DOMAIN content : content[i] \in {" ", "\t", "\n", "\r"}

\* C11: add_message called twice in a row with the same (role, content) of
\* non-blank content on a known conversation stores one message: the second
\* call returns true and leaves the messages and updated_at as they were,
\* the conversation ending with that message.
C11_SecondAddIsNoOp ==
    [][(/\ op = "add_message"
        /\ args.id \in DOMAIN conversations
        /\ ~OnlyWhitespace(args.content)
        /\ op' = "add_message"
        /\ ops' = ops + 1
        /\ args' = args)
            => /\ ret' = "true"
               /\ conversations' = conversations
               /\ Last(conversations'[args.id].messages) = Msg(args.role, args.content)
      ]_vars

\* C11, its case: two calls were made, the second an add_message of the one
\* message the conversation holds, stored in an earlier second.
C11_Witness ==
    /\ ops = 2
    /\ op = "add_message"
    /\ ret = "true"
    /\ args.id \in DOMAIN conversations
    /\ conversations[args.id].messages = <<Msg(args.role, args.content)>>
    /\ conversations[args.id].updated_at < clock

\* C12: add_message with an empty or whitespace-only content returns false
\* and leaves the store as it was, so no message count grows.
C12_BlankNotStored ==
    [][(/\ op' = "add_message"
        /\ ops' = ops + 1
        /\ OnlyWhitespace(args'.content))
            => /\ ret' = "false"
               /\ UNCHANGED store
      ]_vars

\* C12, its case: add_message was called with a content of one space on a
\* conversation the store knows and that holds a message, and returned false.
C12_Witness ==
    /\ op = "add_message"
    /\ args.content = <<" ">>
    /\ args.id \in DOMAIN conversations
    /\ conversations[args.id].messages # <<>>
    /\ ret = "false"

\* C13: no stored message has an empty or whitespace-only content, in any
\* state reached by the handlers.
C13_NoBlankStored ==
    \A id \in DOMAIN conversations :
        \A i \in DOMAIN conversations[id].messages :
            ~OnlyWhitespace(conversations[id].messages[i].content)

\* C14: no conversation holds two adjacent messages with the same role and
\* content, in any state reached by calls of add_message,
\* update_last_message and remove_last_message.
C14_NoAdjacentDuplicates ==
    \A id \in DOMAIN conversations :
        \A i \in 1..(Len(conversations[id].messages) - 1) :
            conversations[id].messages[i] # conversations[id].messages[i + 1]

C16_UndoStepsBack ==
    [][(/\ current_message_index > 0
        /\ op' = "undo_last_message"
        /\ ops' = ops + 1)
            => /\ current_message_index' = current_message_index - 1
               /\ message_history' = SubSeq(message_history, 1, current_message_index)
               /\ log' = <<>>
               /\ UNCHANGED store
      ]_vars

C16_Witness ==
    /\ op = "undo_last_message"
    /\ current_message_index > 0

\* ------------------------------------------------- claims on the edge cases
\* C17: respond called with an empty message makes no request, emits no
\* snapshot, and leaves the visible history, the interaction stack and its
\* index, the active conversation id and the store as they were.
C17_EmptySendIsNoOp ==
    [][\A turn \in Turns :
          respond(<<>>, turn.stream_mode, turn.endpoint, turn.resp, turn.tr)
              => /\ UNCHANGED <<store, session>>
                 /\ log' = <<>>
                 /\ snapshots' = <<>>
      ]_vars

\* an empty message was sent while a conversation was on the screen
C17_Witness ==
    /\ op = "respond"
    /\ outcome = "noop"
    /\ chatbot # <<>>
    /\ message_history # <<>>

\* the visible history holds no entry of the user
NoUserEntry == LastUserIndex(chatbot) = 0

\* C18: retry_last_message on a visible history without a user entry makes
\* no request and leaves the visible history, the interaction stack and the
\* store as they were, also when the history ends with an assistant entry.
C18_RetryWithoutUserIsNoOp ==
    [][(/\ NoUserEntry
        /\ op' = "retry_last_message"
        /\ ops' = ops + 1)
            => /\ UNCHANGED <<store, session>>
               /\ log' = <<>>
               /\ snapshots' = <<>>
      ]_vars

\* a retry was run on a history that holds an assistant entry only, with an
\* index of 0 or more
C18_Witness ==
    /\ op = "retry_last_message"
    /\ outcome = "noop"
    /\ chatbot # <<>>
    /\ NoUserEntry
    /\ chatbot[Len(chatbot)].role = Assistant
    /\ current_message_index >= 0

\* C19: save_edited_message with non-empty content on a non-empty visible
\* history without a user entry makes no request, removes no message, and
\* leaves the visible history and the store as they were.
C19_EditWithoutUserIsNoOp ==
    [][(/\ chatbot # <<>>
        /\ NoUserEntry
        /\ op' = "save_edited_message"
        /\ ops' = ops + 1)
            => /\ UNCHANGED <<store, chatbot>>
               /\ log' = <<>>
      ]_vars

\* ------------------------------------------- claim on the punctuation rule
\* the fragment ends in a character of the punctuation list
EndsSentence(content) ==
    content # <<>> /\ <<content[Len(content)]>> \in PunctuationList

\* C20: whenever process_stream_response appends a fragment that ends in a
\* character of the punctuation list, a snapshot is emitted at that
\* fragment, also when less than 30ms have passed, fewer than 5 characters
\* have accumulated and the fragment is longer than one character.
C20_SnapshotAtSentenceEnd ==
    [][(/\ st_pos' = st_pos + 1
        /\ st_events[st_pos + 1].has_content
        /\ EndsSentence(st_events[st_pos + 1].content))
            => /\ Len(st'.yields) > Len(st.yields)
               /\ st'.yields[Len(st'.yields)].content = st'.full_response
      ]_vars

\* ------------------------------------------------ claims on the snapshots
\* the fragments (of reasoning and of content) of the first n events
RECURSIVE FragmentCount(_, _)
FragmentCount(events, n) ==
    IF n = 0 THEN 0
    ELSE FragmentCount(events, n - 1)
            + (IF events[n].has_reasoning THEN 1 ELSE 0)
            + (IF events[n].has_content THEN 1 ELSE 0)

\* C21: when the events are exhausted, process_stream_response emits exactly
\* one further snapshot, of the whole reasoning and content, if content was
\* appended since the last emission made for content, and none otherwise;
\* there is at most one snapshot per fragment, plus one.
C21_OneFinalSnapshot ==
    /\ [](Len(st.yields) <= FragmentCount(st_events, st_pos) + (IF st_done THEN 1 ELSE 0))
    /\ [][(~st_done /\ st_done')
            => IF st.buffer # <<>>
               THEN st'.yields = Append(st.yields, Snapshot(st.reasoning, st.full_response))
               ELSE st'.yields = st.yields
         ]_vars

\* the stream ended with content held back, after a reasoning fragment had
\* already shown that content
C21_Witness ==
    /\ st_done
    /\ st.buffer # <<>>
    /\ Len(st_events) = 2
    /\ st_events[1].has_content /\ ~st_events[1].has_reasoning
    /\ st_events[2].has_reasoning /\ ~st_events[2].has_content
    /\ Len(st.yields) = 2
    /\ st.yields[1] = st.yields[2]

\* every event carries content only and arrives YieldIntervalMs or more
\* after the previous one
ContentOnlySlow(events) ==
    \A i \in DOMAIN events :
        /\ events[i].has_content
        /\ ~events[i].has_reasoning
        /\ events[i].dt >= YieldIntervalMs

\* C22: for a stream of n fragments of content only, each arriving 30ms or
\* more after the previous emission, process_stream_response emits exactly n
\* snapshots, the i-th holding the first i fragments, and no final one.
C22_OneSnapshotPerSlowFragment ==
    (st_done /\ ContentOnlySlow(st_events))
        => /\ Len(st.yields) = Len(st_events)
           /\ \A i \in DOMAIN st_events :
                st.yields[i].content = ConcatContent(SubSeq(st_events, 1, i))

C22_Witness ==
    /\ st_done
    /\ ContentOnlySlow(st_events)
    /\ Len(st_events) = 2
    /\ st_events[1].content = <<"a">>
    /\ st_events[2].content = <<"a">>
    /\ Len(st.yields) = 2

IsPrefix(a, b) == Len(a) <= Len(b) /\ SubSeq(b, 1, Len(a)) = a

\* C23: of two consecutive snapshots the earlier reasoning is a prefix of
\* the later reasoning and the earlier content a prefix of the later
\* content; every reasoning fragment received gives a snapshot, holding the
\* reasoning up to that fragment, before the next event is read.
C23_SnapshotsGrow ==
    /\ [](\A i \in 1..(Len(st.yields) - 1) :
            /\ IsPrefix(st.yields[i].reasoning, st.yields[i + 1].reasoning)
            /\ IsPrefix(st.yields[i].content, st.yields[i + 1].content))
    /\ [][(st_pos' = st_pos + 1 /\ st_events[st_pos + 1].has_reasoning)
            => /\ Len(st'.yields) > Len(st.yields)
               /\ st'.yields[Len(st.yields) + 1]
                    = Snapshot(st.reasoning \o st_events[st_pos + 1].reasoning_content,
                               st.full_response)
         ]_vars

\* two snapshots, the second longer in reasoning and in content
C23_Witness ==
    /\ Len(st.yields) >= 2
    /\ Len(st.yields[1].reasoning) < Len(st.yields[Len(st.yields)].reasoning)
    /\ Len(st.yields[1].content) < Len(st.yields[Len(st.yields)].content)

\* ------------------------------------------------- claims on the manager
StoreMethods ==
    {"add_message", "update_last_message", "remove_last_message",
     "like_conversation", "dislike_conversation", "update_conversation_title",
     "delete_conversation", "update_title_with_ai"}

\* C24: every method of the manager called with an id the store does not
\* hold returns false, raises nothing and leaves the store as it was;
\* update_last_message and remove_last_message also return false and change
\* nothing on a conversation that holds no message.
C24_UnknownIdIsFalse ==
    [][/\ (/\ op' \in StoreMethods
           /\ ops' = ops + 1
           /\ args'.id \notin DOMAIN conversations)
            => /\ ret' = "false"
               /\ raised' = FALSE
               /\ UNCHANGED store
       /\ (/\ op' \in {"update_last_message", "remove_last_message"}
           /\ ops' = ops + 1
           /\ args'.id \in DOMAIN conversations
           /\ conversations[args'.id].messages = <<>>)
            => /\ ret' = "false"
               /\ UNCHANGED store
      ]_vars

\* a conversation was deleted and then named in a call: the id is unknown
\* to a store that held it before
C24_Witness ==
    /\ ops = 2
    /\ op = "update_conversation_title"
    /\ args.id = 1
    /\ args.id \notin DOMAIN conversations
    /\ ret = "false"

\* the conversations other than id are as they were
OthersUnchanged(id) ==
    /\ DOMAIN conversations' = DOMAIN conversations
    /\ \A other \in DOMAIN conversations \ {id} :
            conversations'[other] = conversations[other]

\* C25: like_conversation (dislike_conversation) on a conversation the store
\* holds adds exactly 1 to its likes (dislikes) and changes nothing else but
\* updated_at; the like and dislike buttons with no conversation id change
\* nothing; no counter is ever negative.
C25_LikeCountsOnce ==
    /\ [](\A id \in DOMAIN conversations :
            conversations[id].likes >= 0 /\ conversations[id].dislikes >= 0)
    /\ [][/\ (/\ op' \in {"like_conversation", "dislike_conversation"}
              /\ ops' = ops + 1
              /\ args'.id \in DOMAIN conversations)
               => /\ ret' = "true"
                  /\ OthersUnchanged(args'.id)
                  /\ conversations'[args'.id] =
                        [conversations[args'.id] EXCEPT
                            !.likes = IF op' = "like_conversation" THEN @ + 1 ELSE @,
                            !.dislikes = IF op' = "dislike_conversation" THEN @ + 1 ELSE @,
                            !.updated_at = clock]
          /\ (/\ op' \in {"like_message", "dislike_message"}
              /\ ops' = ops + 1)
               => /\ UNCHANGED session
                  /\ IF current_conversation_id \notin DOMAIN conversations
                     THEN UNCHANGED store
                     ELSE /\ OthersUnchanged(current_conversation_id)
                          /\ conversations'[current_conversation_id] =
                                [conversations[current_conversation_id] EXCEPT
                                    !.likes = IF op' = "like_message" THEN @ + 1 ELSE @,
                                    !.dislikes = IF op' = "dislike_message" THEN @ + 1 ELSE @,
                                    !.updated_at = clock]
         ]_vars

\* a conversation with messages and a dislike was liked, in a later second
C25_Witness ==
    /\ op = "like_conversation"
    /\ ret = "true"
    /\ conversations[args.id].likes = 1
    /\ conversations[args.id].dislikes = 1
    /\ conversations[args.id].messages # <<>>
    /\ conversations[args.id].updated_at > 2

\* C26: after every method of the manager the index written to storage
\* equals the conversations in memory, so a manager constructed from that
\* storage loads the same conversations.
C26_IndexIsWritten ==
    load_conversations_index(index_file) = conversations

\* a message was changed, then the conversation renamed
C26_Witness ==
    /\ ops = 3
    /\ op = "update_conversation_title"
    /\ ret = "true"
    /\ conversations[args.id].title = <<"T">>
    /\ conversations[args.id].messages # <<>>
    /\ Last(conversations[args.id].messages).content = <<"b">>

\* ------------------------------------- claims on the active conversation
\* C27: in every reachable state the session's active conversation id, used
\* by respond, retry and edit, equals the manager's current_conversation_id,
\* used by generate_response, also after a conversation was loaded from the
\* list, so that all writes of one turn go to one conversation.
C27_OneActiveConversation ==
    current_conversation_id = cm_current_conversation_id

\* C28: from a new conversation and an empty visible history, after every
\* completed streaming send, retry or edit, whatever the response and the
\* message, the (role, content) pairs of the visible history are those
\* stored for the active conversation.
C28_HistoryIsStored ==
    (op \in TurnHandlers /\ outcome \in {"completed", "failed"})
        => /\ current_conversation_id \in DOMAIN conversations
           /\ chatbot = LoadedHistory(conversations[current_conversation_id].messages)

\* C29: whenever the visible history holds a user entry, retry_last_message
\* issues a request for the content of the most recent user entry, whatever
\* the index of the interaction stack, also on a history loaded from the
\* store, for which the stack is empty and the index is -1.
C29_RetryIssuesRequest ==
    [][(/\ ~NoUserEntry
        /\ op' = "retry_last_message"
        /\ ops' = ops + 1)
            => \E i \in DOMAIN log' : log'[i].ev = "request"
      ]_vars

\* the turn of a send without streaming that the endpoint answers at once
NotStreamedTurn == TurnInput(FALSE, Succeeds, Plain, Titled)

\* C30: a send without streaming whose request succeeds returns exactly one
\* snapshot, the final (reasoning, content) pair of the response, and
\* appends the assistant reply exactly once to the visible history and to
\* the active conversation of the store.
C30_NotStreamedSend ==
    [][RespondStep(<<"a">>, NotStreamedTurn)
            => /\ snapshots' = <<process_non_stream_response(Plain)>>
               /\ raised' = FALSE
               /\ chatbot' = chatbot \o <<Msg(User, <<"a">>),
                                          Msg(Assistant, ConcatContent(Plain.events))>>
               /\ current_conversation_id' \in DOMAIN conversations'
               /\ CountRole(StoredMessages(conversations', current_conversation_id'), Assistant)
                    = CountRole(StoredMessages(conversations, current_conversation_id'), Assistant) + 1
      ]_vars

\* ------------------------------------------ claim on create_conversation
\* C31: create_conversation, at whatever second it is called, also twice in
\* one second, returns an id the store did not hold, the store holds exactly
\* one conversation more, and every conversation stored before is as it was.
C31_CreateKeepsConversations ==
    [][(/\ op' = "create_conversation"
        /\ ops' = ops + 1)
            => /\ cm_current_conversation_id' \notin DOMAIN conversations
               /\ Cardinality(DOMAIN conversations') = Cardinality(DOMAIN conversations) + 1
               /\ \A id \in DOMAIN conversations :
                    /\ id \in DOMAIN conversations'
                    /\ conversations'[id] = conversations[id]
      ]_vars

\* --------------------------------------------- claim on the stack's index
\* C32: in every state reached by sends, undos, retries, edits, clears and
\* new conversations the index i of the interaction stack satisfies
\* -1 <= i <= Len(stack) - 1; every send of a non-empty message pushes
\* exactly one snapshot, the visible history up to and including the new
\* user message, and sets the index to Len(stack) - 1; retry and edit leave
\* the stack and the index as they were.
C32_StackIndex ==
    /\ [](/\ -1 <= current_message_index
          /\ current_message_index <= Len(message_history) - 1)
    /\ [][/\ \A message \in Messages, turn \in Turns :
                RespondStep(message, turn)
                    => /\ message_history'
                            = Append(message_history, Append(chatbot, Msg(User, message)))
                       /\ current_message_index' = Len(message_history') - 1
          /\ (/\ op' \in {"retry_last_message", "save_edited_message"}
              /\ ops' = ops + 1)
                => UNCHANGED <<message_history, current_message_index>>
         ]_vars

====
